---- MODULE Spec2Model ----
(***************************************************************************)
(* Model of @hsuite/ipfs: the node provider's pin ledger (_Node.pin,       *)
(* _Node.handleIpfsBroadcastWrite, IpfsService.uploadAndPin, _Node.unpin)  *)
(* the gateway provider's fan-out (_Gateway.get, _Gateway.getFile) and the *)
(* facade's fetches over both providers (IpfsService.get, getFile).        *)
(*                                                                         *)
(* Every async method is cut at its awaits: one action per external call   *)
(* (IPFS daemon, MongoDB, HTTP gateway) together with the synchronous      *)
(* continuation that follows it up to the next await.  Calls of different  *)
(* requests interleave at these points, as they do on the Node.js event    *)
(* loop.                                                                   *)
(***************************************************************************)
EXTENDS Integers, Sequences, FiniteSets, Bags, TLC

\* ------------------------------------------------------------------ bounds
MaxCalls == 4        \* calls invoked in one behaviour
MaxInFlight == 2     \* calls that are between invocation and return at once
NumGateways == 3     \* length of options.gatewaysUrls
MaxFetches == 2      \* fetches (get, getFile) issued in one behaviour
MaxUrlLen == 3       \* tokens in an arbitrary argument of extractCID

\* ------------------------------------------------------------------ values
Owners == {"alice", "bob"}
\* What callers pass as content: a text, and a content identifier (the
\* facade and the controller name this parameter CID: POST /ipfs/pin/:cid).
Contents == {"hello", "QmHello"}

\* client.add(Buffer.from(content)) -> result.cid.toString(): the content's
\* address, one CID per content.
CidOf(content) == IF content = "hello" THEN "QmHello"
                  ELSE IF content = "QmHello" THEN "QmOfQmHello"
                  ELSE "QmMetadata"
CIDs == {CidOf(x) : x \in Contents}

\* A JSON document, as NFT metadata is stored: {"image":"ipfs://QmHello"}.
MetadataText == "{\"image\":\"ipfs://QmHello\"}"
\* The texts that the network holds, and their addresses.
Texts == Contents \cup {MetadataText}
Stored == {CidOf(x) : x \in Texts}

NoMetadata == [filename |-> "", mimetype |-> "", size |-> 0]
\* file.originalname, file.mimetype, file.size of the uploaded Multer file
FileMetadata(content) ==
    [filename |-> content, mimetype |-> "text/plain", size |-> Len(content)]

VARIABLES
    ledger,      \* the pins collection, in natural (insertion) order
    pinned,      \* CIDs pinned in the IPFS daemon's pinset
    clock,       \* the time, advanced at every ledger write
    hasEmitter,  \* whether the Node got an EventEmitter2 at construction
    providers,   \* the types of the providers in IpfsService's map
    calls,       \* the bag of calls in flight
    started,     \* number of calls invoked so far
    rmSent,      \* whether the latest step sent a client.pin.rm request
    invoked,     \* the call invoked by the latest step, if any
    returned,    \* the call that returned in the latest step, if any
    emitted,     \* the 'ipfs:write' payload emitted by the latest step, if any
    gwCid,       \* the CID of the current fetch
    gwReq,       \* per gateway: state of the HTTP request of the current fetch
    gwSettled,   \* gateways of the current fetch in completion order
    gwResult,    \* state of the promise returned by the gateway provider
    fetches,     \* number of fetches so far
    facade,      \* the method that started the current fetch
    cat,         \* state of the client.cat request of the current fetch
    exUrl,       \* the argument of a call of extractCID on its own
    exResult     \* what that call returned or threw

\* What the fetch actions leave unchanged, what the node actions leave
\* unchanged, and all variables.
exVars == <<exUrl, exResult>>
nodeVars == <<ledger, pinned, clock, hasEmitter, providers, calls, started,
              rmSent, invoked, returned, emitted, exVars>>
gwVars == <<gwCid, gwReq, gwSettled, gwResult, fetches, facade, cat, exVars>>
vars == <<ledger, pinned, clock, hasEmitter, providers, calls, started,
          rmSent, invoked, returned, emitted,
          gwCid, gwReq, gwSettled, gwResult, fetches, facade, cat,
          exUrl, exResult>>

\* ------------------------------------------------------------- pin ledger
\* _Pin: the schema declares cid, owner, timestamp as required and no index.
NewPin(cid, owner, now, metadata) ==
    [cid |-> cid, owner |-> owner, timestamp |-> now, metadata |-> metadata]

\* Casting a document to the _Pin schema (strict mode, the Mongoose default):
\* paths the schema does not declare are not stored.
StrictCast(doc) == [doc EXCEPT !.metadata = NoMetadata]

\* pinModel.create(doc): inserts one document; no unique index rejects it.
Create(ldg, doc) == Append(ldg, StrictCast(doc))

\* pinModel.findOne({ cid }): position of the first matching document, 0 if none.
FindOne(ldg, cid) ==
    IF \E k \in 1..Len(ldg) : ldg[k].cid = cid
    THEN CHOOSE k \in 1..Len(ldg) :
            /\ ldg[k].cid = cid
            /\ \A j \in 1..(k - 1) : ldg[j].cid # cid
    ELSE 0

\* deleteOne with an empty filter: removes the first document of any CID.
DeleteOneOfAny(ldg, cid) == IF Len(ldg) = 0 THEN ldg ELSE Tail(ldg)

\* pinModel.deleteOne({ cid }): removes the first matching document, if any.
DeleteOne(ldg, cid) ==
    LET k == FindOne(ldg, cid)
    IN  IF k = 0 THEN ldg
        ELSE SubSeq(ldg, 1, k - 1) \o SubSeq(ldg, k + 1, Len(ldg))

Records(ldg, cid) == {k \in 1..Len(ldg) : ldg[k].cid = cid}

\* ------------------------------------------------------------------ calls
Idle == [op |-> "none", content |-> "", cid |-> "", owner |-> "",
         broadcast |-> FALSE, pc |-> "idle", rmDone |-> FALSE, chain |-> FALSE]
NoCall == [op |-> "none", content |-> "", cid |-> "", owner |-> "",
           broadcast |-> FALSE]
NoReturn == [op |-> "none", content |-> "", cid |-> "", owner |-> "",
             broadcast |-> FALSE, result |-> "", chain |-> FALSE]
NoEmit == [content |-> "", owner |-> ""]

Errors == {"AddError", "CreateError", "TypeError", "Content not pinned",
           "Unauthorized", "PinRmError", "NotPinnedError", "DeleteError",
           "StatusError"}
\* failures of the daemon or the database themselves, not of this code
ExternalFailures == {"AddError", "CreateError", "PinRmError", "DeleteError",
                     "StatusError"}

Call(op, content, cid, owner, broadcast, pc, chain) ==
    [op |-> op, content |-> content, cid |-> cid, owner |-> owner,
     broadcast |-> broadcast, pc |-> pc, rmDone |-> FALSE, chain |-> chain]

\* Date.now() of a ledger write: logical time, one tick per write.
Now == clock

InFlight == BagToSet(calls)

\* A new call can be accepted.
CanInvoke ==
    /\ started < MaxCalls
    /\ BagCardinality(calls) < MaxInFlight

\* The calls in flight after a step of another call: they are no longer
\* running back to back with the call that returned before they began.
Interleaved(b) ==
    LET clear(c) == [c EXCEPT !.chain = FALSE]
        S == {clear(c) : c \in BagToSet(b)}
    IN  [x \in S |-> CopiesIn(x, b) + CopiesIn([x EXCEPT !.chain = TRUE], b)]

\* The call `old` (Idle for a new call) goes on as `new`.
Continue(old, new) ==
    /\ calls' = Interleaved(calls (-) SetToBag({old})) (+) SetToBag({new})
    /\ returned' = NoReturn

\* The call `old` (Idle for a new call) returns `result`; c holds its arguments.
Finish(old, c, result) ==
    /\ calls' = Interleaved(calls (-) SetToBag({old}))
    /\ returned' = [op |-> c.op, content |-> c.content, cid |-> c.cid,
                    owner |-> c.owner, broadcast |-> c.broadcast,
                    result |-> result, chain |-> c.chain]

Invoke(c) ==
    /\ started' = started + 1
    /\ invoked' = [op |-> c.op, content |-> c.content, cid |-> c.cid,
                   owner |-> c.owner, broadcast |-> c.broadcast]

Resume ==
    /\ started' = started
    /\ invoked' = NoCall

\* The listener without its catch.
PinOutcomeRethrown(op, result) == result

\* Every caller with the catch of the listener.
PinOutcomeSwallowed(op, result) ==
    IF result \in Errors THEN "false" ELSE "undefined"

\* handleIpfsBroadcastWrite: try { await this.pin(..., false) } catch { return false }
\* _Node.pin: catch (error) { throw error }
PinOutcome(op, result) ==
    IF op = "replicate"
    THEN IF result \in Errors THEN "false" ELSE "undefined"
    ELSE result

\* A map in which every provider is found.
HasProviderAlways(type) == TRUE

\* this.providers.get(type) is not undefined.
HasProvider(type) == type \in providers

\* this.eventEmitter.emit('ipfs:write', ...): a TypeError when the Node was
\* constructed without the fourth argument.
EmitThrows == ~hasEmitter

\* ------------------------------------------------- _Node.pin, replication
\* pin(content, owner, broadcast) up to and including client.add; the
\* replication listener calls pin with broadcast = false.
PinAdd(op, content, owner, broadcast) ==
    /\ CanInvoke
    /\ HasProvider("node")
    /\ LET c == Call(op, content, "", owner, broadcast, "add", FALSE)
       IN  /\ Invoke(c)
           /\ \E ok \in BOOLEAN :
                IF ok
                THEN /\ pinned' = pinned \cup {CidOf(content)}
                     /\ Continue(Idle, [c EXCEPT !.cid = CidOf(content),
                                              !.pc = "create"])
                ELSE /\ pinned' = pinned
                     /\ Finish(Idle, c, PinOutcome(op, "AddError"))
    /\ emitted' = NoEmit
    /\ rmSent' = FALSE
    /\ UNCHANGED <<ledger, clock, hasEmitter, providers>>
    /\ UNCHANGED gwVars

\* A pin that emits whatever its broadcast argument.
BroadcastsAlways(c) == TRUE

\* if (broadcast)
Broadcasts(c) == c.broadcast

\* pinModel.create, then the emit and the return.
PinCreate(c) ==
    /\ c \in InFlight
    /\ c.pc = "create"
    /\ c.op \in {"pin", "replicate"}
    /\ Resume
    /\ \E ok \in BOOLEAN :
            IF ok
            THEN /\ ledger' = Create(ledger,
                                     NewPin(c.cid, c.owner, Now, NoMetadata))
                 /\ clock' = clock + 1
                 /\ IF Broadcasts(c)
                    THEN IF EmitThrows
                         THEN /\ emitted' = NoEmit
                              /\ Finish(c, c, PinOutcome(c.op, "TypeError"))
                         ELSE /\ emitted' = [content |-> c.content,
                                             owner |-> c.owner]
                              /\ Finish(c, c, PinOutcome(c.op, c.cid))
                    ELSE /\ emitted' = NoEmit
                         /\ Finish(c, c, PinOutcome(c.op, c.cid))
            ELSE /\ UNCHANGED <<ledger, clock>>
                 /\ emitted' = NoEmit
                 /\ Finish(c, c, PinOutcome(c.op, "CreateError"))
    /\ rmSent' = FALSE
    /\ UNCHANGED <<pinned, hasEmitter, providers>>
    /\ UNCHANGED gwVars

\* ------------------------------------------------ IpfsService.uploadAndPin
\* client.addAll(stream, { pin: true }) up to the last result.
UploadAdd(content, owner) ==
    /\ CanInvoke
    /\ HasProvider("node")
    /\ LET c == Call("upload", content, "", owner, FALSE, "add", FALSE)
       IN  /\ Invoke(c)
           /\ \E ok \in BOOLEAN :
                IF ok
                THEN /\ pinned' = pinned \cup {CidOf(content)}
                     /\ Continue(Idle, [c EXCEPT !.cid = CidOf(content),
                                              !.pc = "create"])
                ELSE /\ pinned' = pinned
                     /\ Finish(Idle, c, "AddError")
    /\ emitted' = NoEmit
    /\ rmSent' = FALSE
    /\ UNCHANGED <<ledger, clock, hasEmitter, providers>>
    /\ UNCHANGED gwVars

\* getPinModel().create({ cid, owner, timestamp, metadata }), then the return.
UploadCreate(c) ==
    /\ c \in InFlight
    /\ c.pc = "create"
    /\ c.op = "upload"
    /\ Resume
    /\ \E ok \in BOOLEAN :
            IF ok
            THEN /\ ledger' = Create(ledger,
                        NewPin(c.cid, c.owner, Now, FileMetadata(c.content)))
                 /\ clock' = clock + 1
                 /\ Finish(c, c, c.cid)
            ELSE /\ UNCHANGED <<ledger, clock>>
                 /\ Finish(c, c, "CreateError")
    /\ emitted' = NoEmit
    /\ rmSent' = FALSE
    /\ UNCHANGED <<pinned, hasEmitter, providers>>
    /\ UNCHANGED gwVars

\* ------------------------------------------------------------ _Node.unpin
\* unpin without the ownership check.
UnpinCheckIgnoringOwner(ldg, cid, owner) ==
    IF FindOne(ldg, cid) = 0 THEN "Content not pinned" ELSE "ok"

\* unpin that compares the owner only when a record was found.
UnpinCheckIgnoringMissing(ldg, cid, owner) ==
    LET k == FindOne(ldg, cid)
    IN  IF k # 0 /\ ldg[k].owner # owner THEN "Unauthorized" ELSE "ok"

\* The two checks that follow findOne.
UnpinCheck(ldg, cid, owner) ==
    LET k == FindOne(ldg, cid)
    IN  IF k = 0 THEN "Content not pinned"
        ELSE IF ldg[k].owner # owner THEN "Unauthorized"
        ELSE "ok"

\* unpin that swallows a rejection of pin.rm.
AfterRmIgnoringFailure(ok) == "delete"

\* What follows `await this.client.pin.rm(cid)`: a rejection is rethrown.
AfterRm(ok) == IF ok THEN "delete" ELSE "throw"

\* unpin(cid, owner) up to and including findOne and the checks on its result.
UnpinFind(cid, owner) ==
    /\ CanInvoke
    /\ HasProvider("node")
    /\ LET back == /\ returned.op = "pin"
                   /\ returned.result = cid
                   /\ returned.owner = owner
           c == Call("unpin", "", cid, owner, FALSE, "find", back)
           check == UnpinCheck(ledger, cid, owner)
       IN  /\ Invoke(c)
           /\ IF check = "ok"
              THEN Continue(Idle, [c EXCEPT !.pc = "rm"])
              ELSE Finish(Idle, c, check)
    /\ emitted' = NoEmit
    /\ rmSent' = FALSE
    /\ UNCHANGED <<ledger, pinned, clock, hasEmitter, providers>>
    /\ UNCHANGED gwVars

\* client.pin.rm(cid): the daemon rejects a CID that is not in its pinset,
\* and the request itself may fail.
UnpinRm(c) ==
    /\ c \in InFlight
    /\ c.pc = "rm"
    /\ Resume
    /\ rmSent' = TRUE
    /\ \E reachable \in BOOLEAN :
            LET ok == reachable /\ c.cid \in pinned
                err == IF reachable THEN "NotPinnedError" ELSE "PinRmError"
            IN  /\ pinned' = IF ok THEN pinned \ {c.cid} ELSE pinned
                /\ IF AfterRm(ok) = "delete"
                   THEN Continue(c, [c EXCEPT !.pc = "delete", !.rmDone = ok])
                   ELSE Finish(c, c, err)
    /\ emitted' = NoEmit
    /\ UNCHANGED <<ledger, clock, hasEmitter, providers>>
    /\ UNCHANGED gwVars

\* pinModel.deleteOne({ cid }), then return true.
UnpinDelete(c) ==
    /\ c \in InFlight
    /\ c.pc = "delete"
    /\ Resume
    /\ \E ok \in BOOLEAN :
            IF ok
            THEN /\ ledger' = DeleteOne(ledger, c.cid)
                 /\ Finish(c, c, "true")
            ELSE /\ ledger' = ledger
                 /\ Finish(c, c, "DeleteError")
    /\ emitted' = NoEmit
    /\ rmSent' = FALSE
    /\ UNCHANGED <<pinned, clock, hasEmitter, providers>>
    /\ UNCHANGED gwVars

\* -------------------------------------------------------- _Node.getStatus
\* getStatus(): POST nodeUrl/id, then POST nodeUrl/swarm/peers, on the
\* node's own HTTP API.  Neither request touches the ledger or the pinset,
\* so both awaits are taken in one step; either request may fail.
GetStatus ==
    /\ CanInvoke
    /\ HasProvider("node")
    /\ LET c == Call("getStatus", "", "", "", FALSE, "id", FALSE)
       IN  /\ Invoke(c)
           /\ \E ok \in BOOLEAN :
                Finish(Idle, c, IF ok THEN "status" ELSE "StatusError")
    /\ emitted' = NoEmit
    /\ rmSent' = FALSE
    /\ UNCHANGED <<ledger, pinned, clock, hasEmitter, providers>>
    /\ UNCHANGED gwVars

\* --------------------------------------- IpfsService without a node provider
\* (this.providers.get('node') as IPFS.Node).pin(...) and the like, with no
\* provider of type 'node' in the map: the member access on undefined
\* throws a TypeError, which rejects the promise of the async method.
FacadeNoNode(op, content, cid, owner) ==
    /\ CanInvoke
    /\ ~HasProvider("node")
    /\ LET c == Call(op, content, cid, owner, op = "pin", "none", FALSE)
       IN  /\ Invoke(c)
           /\ Finish(Idle, c, "TypeError")
    /\ emitted' = NoEmit
    /\ rmSent' = FALSE
    /\ UNCHANGED <<ledger, pinned, clock, hasEmitter, providers>>
    /\ UNCHANGED gwVars

\* ------------------------------------------------------------------- node
\* The providers of IpfsModule.forRootAsync, and a map without the node.
Configurations == {{"node", "gateway"}, {"gateway"}}

NodeInit ==
    /\ ledger = <<>>
    /\ pinned = {}
    /\ clock = 1
    /\ providers \in Configurations
    /\ hasEmitter \in BOOLEAN
    /\ hasEmitter => "node" \in providers
    /\ calls = EmptyBag
    /\ started = 0
    /\ rmSent = FALSE
    /\ invoked = NoCall
    /\ returned = NoReturn
    /\ emitted = NoEmit

\* ----------------------------------------------------------- _Gateway.get
Gateways == 1..NumGateways

\* The body a gateway serves for a CID: the content with that address.
ContentAt(cid) == CHOOSE x \in Texts : CidOf(x) = cid

NoResult == [state |-> "idle", from |-> 0, data |-> ""]
Pending == [state |-> "pending", from |-> 0, data |-> ""]

\* Promise.race in the place of Promise.any: the first completion decides.
PromiseRace(req, settled, cid) ==
    IF Len(settled) = 0 THEN [state |-> "pending", from |-> 0, data |-> ""]
    ELSE IF req[settled[1]] = "ok"
    THEN [state |-> "resolved", from |-> settled[1],
          data |-> ContentAt(cid)]
    ELSE [state |-> "rejected", from |-> 0, data |-> "AggregateError"]

\* Promise.allSettled in the place of Promise.any: every request is awaited
\* before the first fulfilment is returned.
PromiseAllSettled(req, settled, cid) ==
    IF Len(settled) < Cardinality(DOMAIN req)
    THEN [state |-> "pending", from |-> 0, data |-> ""]
    ELSE LET won == {k \in 1..Len(settled) : req[settled[k]] = "ok"}
         IN  IF won = {}
             THEN [state |-> "rejected", from |-> 0, data |-> "AggregateError"]
             ELSE [state |-> "resolved",
                   from |-> settled[CHOOSE k \in won : \A j \in won : k <= j],
                   data |-> ContentAt(cid)]

\* Promise.any(promises) after the requests listed in `settled` have completed
\* in that order: fulfilled by the first fulfilment, rejected (AggregateError)
\* once every promise is rejected, pending otherwise.
PromiseAny(req, settled, cid) ==
    LET won == {k \in 1..Len(settled) : req[settled[k]] = "ok"}
    IN  IF won # {}
        THEN LET first == CHOOSE k \in won : \A j \in won : k <= j
             IN  [state |-> "resolved", from |-> settled[first],
                  data |-> ContentAt(cid)]
        ELSE IF Len(settled) = Cardinality(DOMAIN req)
        THEN [state |-> "rejected", from |-> 0, data |-> "AggregateError"]
        ELSE Pending

\* A promise that every later completion settles again.
SettleLatest(cur, req, settled, cid) ==
    IF Len(settled) = 0 THEN cur
    ELSE IF req[settled[Len(settled)]] = "ok"
    THEN [state |-> "resolved", from |-> settled[Len(settled)],
          data |-> ContentAt(cid)]
    ELSE PromiseAny(req, settled, cid)

\* resolve(response.data) / reject(error): a settled promise stays as it is.
Settle(cur, req, settled, cid) ==
    IF cur.state # "pending" THEN cur ELSE PromiseAny(req, settled, cid)

\* ------------------------------------------------------------ extractCID
\* A URL is a sequence of tokens: the pieces that the patterns of extractCID
\* name ("ipfs://", "https://", "/ipfs/", "?", ".", "ipfs.dweb.link/") and
\* words that contain none of them.  The empty sequence is the empty string.
\* A value is a string, null or undefined; TypeError stands for a throw.
NullCid == [kind |-> "null", str |-> <<>>]
UndefinedCid == [kind |-> "undefined", str |-> <<>>]
ThrowsTypeError == [kind |-> "TypeError", str |-> <<>>]
StringCid(str) == [kind |-> "string", str |-> str]

\* A test that only null fails.
FalsyOnlyNull(v) == v.kind = "null"

\* if (url), if (!CID): null, undefined and the empty string are falsy.
Falsy(v) == v.kind \in {"null", "undefined"} \/ v.str = <<>>

\* A replace that removes nothing.
StripNothing(url) == url

\* url.replace('ipfs://', ''): the first occurrence is removed.
StripScheme(url) ==
    LET at == {k \in 1..Len(url) : url[k] = "ipfs://"}
    IN  IF at = {} THEN url
        ELSE LET k == CHOOSE i \in at : \A j \in at : i <= j
             IN  SubSeq(url, 1, k - 1) \o SubSeq(url, k + 1, Len(url))

\* [^?]+ from position i, greedy: the last position of the run without '?'.
RunEnd(s, i) ==
    CHOOSE j \in i..Len(s) :
        /\ \A k \in i..j : s[k] # "?"
        /\ j = Len(s) \/ s[j + 1] = "?"

\* lodash.nth(/(https:\/\/[^?]+\/ipfs\/)?([^?]+)/.exec(s), 2): the match
\* starts at the first token other than '?'; the optional group is taken
\* when 'https://', at least one token and '/ipfs/' are followed by at
\* least one more token, up to the last such '/ipfs/'.
CidGroup(s) ==
    LET starts == {i \in 1..Len(s) : s[i] # "?"}
    IN  IF starts = {} THEN UndefinedCid
        ELSE LET i == CHOOSE k \in starts : \A j \in starts : k <= j
                 e == RunEnd(s, i)
                 gw == IF s[i] = "https://"
                       THEN {j \in (i + 2)..(e - 1) : s[j] = "/ipfs/"}
                       ELSE {}
             IN  IF gw = {} THEN StringCid(SubSeq(s, i, e))
                 ELSE LET j == CHOOSE k \in gw : \A m \in gw : m <= k
                      IN  StringCid(SubSeq(s, j + 1, e))

\* lodash.nth(/https:\/\/([^?]+)\.ipfs\.dweb\.link\//.exec(c), 1)
DwebGroup(c) ==
    LET m == {p \in (1..Len(c)) \X (1..Len(c)) :
                 /\ c[p[1]] = "https://"
                 /\ p[1] < p[2]
                 /\ p[2] + 2 <= Len(c)
                 /\ c[p[2] + 1] = "."
                 /\ c[p[2] + 2] = "ipfs.dweb.link/"}
    IN  IF m = {} THEN UndefinedCid
        ELSE LET p == CHOOSE q \in m :
                         \A r \in m : \/ q[1] < r[1]
                                      \/ q[1] = r[1] /\ q[2] >= r[2]
             IN  StringCid(SubSeq(c, p[1] + 1, p[2]))

\* extractCID(url), url a value
ExtractCID(url) ==
    IF Falsy(url) THEN NullCid
    ELSE LET cid == CidGroup(StripScheme(url.str))
         IN  IF cid.kind = "undefined" THEN ThrowsTypeError
             ELSE IF cid.str[Len(cid.str)] = "ipfs.dweb.link/"
             THEN DwebGroup(cid.str)
             ELSE cid

\* The four documented shapes of the URL of X, X a sequence of tokens:
\* ipfs://X, https://gw/ipfs/X?q=1, https://X.ipfs.dweb.link/, X.
UrlsOf(X) == {<<"ipfs://">> \o X,
              <<"https://", "gw", "/ipfs/">> \o X \o <<"?", "q=1">>,
              <<"https://">> \o X \o <<".", "ipfs.dweb.link/">>,
              X}

\* The URLs passed to getFile and getMetadata: the four shapes of each
\* stored CID, the empty string, and a dweb.link URL without 'https://'.
FileUrls == UNION {UrlsOf(<<X>>) : X \in Stored}
                \cup {<<>>, <<"QmHello", ".", "ipfs.dweb.link/">>}

\* `${gateway}${CID}`: the text of a value inside a template literal.
\* "null" and "undefined" stand for the two values in gwCid.
TextOf(v) == IF v.kind # "string" THEN v.kind
             ELSE IF v.str = <<>> THEN ""
             ELSE v.str[1]
FalsyText(cid) == cid \in {"", "null", "undefined"}

\* ------------------------------------------------------------ JSON values
JsUndefined == [type |-> "undefined"]
JsString(text) == [type |-> "string", text |-> text]

\* JSON.parse(text) throws a SyntaxError unless the text is a JSON document.
ValidJson(text) == text = MetadataText
JsonParse(text) ==
    [type |-> "object", image |-> StringCid(<<"ipfs://", "QmHello">>),
     CID |-> UndefinedCid]

\* A get that never parses.
TextOnly(text) == JsString(text)

\* try { return JSON.parse(content) } catch { return content }; axios
\* transforms the body of a response the same way.
ParseOrText(text) == IF ValidJson(text) THEN JsonParse(text) ELSE JsString(text)

\* ------------------------------------------------------------------ fetch
\* Both methods with the order of getFile.
FirstSourceGateway(method) == "gateway"
\* Both methods with the order of get.
FirstSourceNode(method) == "node"

\* IpfsService.get asks the node first, IpfsService.getFile the gateways;
\* getMetadata and _Gateway.get ask the gateways.
FirstSource(method) == IF method = "get" THEN "node" ELSE "gateway"

\* Every method with a second provider in its catch.
HasFallbackAlways(method) == TRUE

\* The methods whose catch asks the other provider.
HasFallback(method) == method \in {"get", "getFile"}

\* A fetch starts when no request of an earlier fetch is still open.
CanFetch ==
    /\ fetches < MaxFetches
    /\ \A g \in Gateways : gwReq[g] # "pending"
    /\ cat # "pending"

\* gatewaysUrls.forEach issues one GET per gateway, then Promise.any is
\* awaited.
AskGateways(cid) ==
    /\ gwReq' = [g \in Gateways |-> "pending"]
    /\ gwSettled' = <<>>
    /\ gwResult' = Settle(Pending, gwReq', gwSettled', cid)

NoGatewayAsked ==
    /\ gwReq' = [g \in Gateways |-> "idle"]
    /\ gwSettled' = <<>>
    /\ gwResult' = NoResult

\* A node that asks client.cat for whatever CID it is given.
NodeAttemptUnchecked(cid) ==
    IF ~HasProvider("node") THEN "unavailable" ELSE "pending"

\* The call of get / getFile on the node provider up to its first await:
\* a TypeError without a node provider, 'Invalid CID' for a falsy CID,
\* otherwise client.cat is requested.
NodeAttempt(cid) ==
    IF ~HasProvider("node") THEN "unavailable"
    ELSE IF FalsyText(cid) THEN "invalid"
    ELSE "pending"

\* _Gateway.get(CID), called on the provider itself.
GwGet(cid) ==
    /\ CanFetch
    /\ fetches' = fetches + 1
    /\ facade' = "gateway.get"
    /\ gwCid' = cid
    /\ AskGateways(cid)
    /\ cat' = "idle"
    /\ UNCHANGED nodeVars

\* IpfsService.get(CID), getFile(ipfsUrl) and getMetadata(ipfsUrl) up to the
\* first await: the request(s) to the first source are issued; when the node
\* comes first and fails before any await, the catch asks the gateways.
FacadeFetch(method, cid) ==
    /\ CanFetch
    /\ fetches' = fetches + 1
    /\ facade' = method
    /\ gwCid' = cid
    /\ IF FirstSource(method) = "node"
       THEN /\ cat' = NodeAttempt(cid)
            /\ IF cat' # "pending" /\ HasFallback(method)
               THEN AskGateways(cid)
               ELSE NoGatewayAsked
       ELSE /\ cat' = "idle"
            /\ AskGateways(cid)
    /\ UNCHANGED nodeVars

FacadeGet(cid) == FacadeFetch("get", cid)

\* getFile(ipfsUrl): both providers reduce the URL with extractCID.
FacadeGetFile(url) ==
    LET CID == ExtractCID(StringCid(url))
    IN  /\ CID.kind # "TypeError"
        /\ Len(CID.str) <= 1
        /\ FacadeFetch("getFile", TextOf(CID))

\* Buffer.from(ipfsUrl, 'base64').toString() of an encoded URL.
Base64Encode(url) == <<"base64">> \o url
Base64Decode(code) == Tail(code)

\* getMetadata(ipfsUrl): the URL is decoded and reduced, then this.get(CID).
FacadeGetMetadata(code) ==
    LET CID == ExtractCID(StringCid(Base64Decode(code)))
    IN  /\ CID.kind # "TypeError"
        /\ Len(CID.str) <= 1
        /\ FacadeFetch("getMetadata", TextOf(CID))

\* client.cat(cid, { timeout: 10000 }) ends: with the content, with an
\* error, or with the timeout.  In the catch of the facade the other
\* provider is asked, unless it was asked before.
CatRespond(outcome) ==
    /\ cat = "pending"
    /\ outcome = "ok" => gwCid \in Stored
    /\ cat' = outcome
    /\ IF outcome # "ok" /\ gwResult.state = "idle" /\ HasFallback(facade)
       THEN AskGateways(gwCid)
       ELSE UNCHANGED <<gwReq, gwSettled, gwResult>>
    /\ UNCHANGED <<gwCid, fetches, facade>>
    /\ UNCHANGED nodeVars

\* The HTTP request to gateway g completes, with a response or an error; a
\* gateway has a response only for a CID that addresses content.  When that
\* rejects Promise.any inside IpfsService.getFile, the catch asks the node.
GwRespond(g, ok) ==
    /\ gwReq[g] = "pending"
    /\ ok => gwCid \in Stored
    /\ gwReq' = [gwReq EXCEPT ![g] = IF ok THEN "ok" ELSE "fail"]
    /\ gwSettled' = Append(gwSettled, g)
    /\ gwResult' = Settle(gwResult, gwReq', gwSettled', gwCid)
    /\ cat' = IF /\ HasFallback(facade)
                 /\ cat = "idle"
                 /\ gwResult.state = "pending"
                 /\ gwResult'.state = "rejected"
              THEN NodeAttempt(gwCid)
              ELSE cat
    /\ UNCHANGED <<gwCid, fetches, facade>>
    /\ UNCHANGED nodeVars

\* Gateway g never answers its request: httpService.get is called without a
\* timeout and HttpModule.register({}) configures none.
GwHang(g) ==
    /\ gwReq[g] = "pending"
    /\ gwReq' = [gwReq EXCEPT ![g] = "hung"]
    /\ UNCHANGED <<gwCid, gwSettled, gwResult, fetches, facade, cat>>
    /\ UNCHANGED nodeVars

\* The attempt on the node provider has failed.
CatFailed == cat \in {"fail", "timeout", "invalid", "unavailable"}
CatError ==
    IF cat = "invalid" THEN "Invalid CID"
    ELSE IF cat = "unavailable" THEN "TypeError"
    ELSE IF cat = "timeout" THEN "TimeoutError"
    ELSE "CatError"

\* encodeURIComponent(cid): the reserved characters of a token are escaped.
EncodeURIComponent(v) ==
    LET esc(t) == IF t = "ipfs://" THEN "ipfs%3A%2F%2F"
                  ELSE IF t = "https://" THEN "https%3A%2F%2F"
                  ELSE IF t = "/ipfs/" THEN "%2Fipfs%2F"
                  ELSE IF t = "?" THEN "%3F"
                  ELSE IF t = "ipfs.dweb.link/" THEN "ipfs.dweb.link%2F"
                  ELSE t
    IN  IF v.kind # "string" THEN <<v.kind>>
        ELSE [k \in DOMAIN v.str |-> esc(v.str[k])]

\* getImageUrl(cid)
GetImageUrl(v) ==
    <<"https://", "gateway.pinata.cloud", "/ipfs/">> \o EncodeURIComponent(v)
        \o <<"?", "optimizer=image&width=300">>

\* getMetadata after `await this.get(CID)`: the image (or CID) field is
\* reduced and replaced by its gateway URL.  A body that is not a JSON
\* object is a string: its fields are undefined and, in the strict mode of
\* a class body, the assignment to metadata.image throws a TypeError.
ProcessMetadata(metadata) ==
    IF metadata.type # "object"
    THEN [state |-> "rejected", error |-> "TypeError", value |-> JsUndefined]
    ELSE LET image == ExtractCID(IF ~Falsy(metadata.image)
                                 THEN metadata.image ELSE metadata.CID)
         IN  IF image.kind = "TypeError"
             THEN [state |-> "rejected", error |-> "TypeError",
                   value |-> JsUndefined]
             ELSE [state |-> "resolved", error |-> "",
                   value |-> [metadata EXCEPT
                                 !.image = StringCid(GetImageUrl(image))]]

Outcome(state, from, data, value) ==
    [state |-> state, from |-> from, data |-> data, value |-> value]

\* The promise returned by the method that started the current fetch:
\* resolve(await first.get(..)), or in its catch resolve(await second.get(..)),
\* or in the catch of that reject(error).  data is the body that was served
\* (or the error), value what the caller receives.
FetchResult ==
    IF facade = "none" THEN Outcome("idle", 0, "", JsUndefined)
    ELSE IF facade = "gateway.get"
    THEN Outcome(gwResult.state, gwResult.from, gwResult.data,
                 IF gwResult.state = "resolved"
                 THEN ParseOrText(gwResult.data) ELSE JsUndefined)
    ELSE IF facade = "getMetadata" /\ gwResult.state = "resolved"
    THEN LET done == ProcessMetadata(ParseOrText(gwResult.data))
         IN  Outcome(done.state, gwResult.from,
                     IF done.state = "resolved"
                     THEN gwResult.data ELSE done.error,
                     done.value)
    ELSE IF cat = "ok"
    THEN Outcome("resolved", 0, ContentAt(gwCid),
                 IF facade = "get"
                 THEN [type |-> "object",
                       data |-> ParseOrText(ContentAt(gwCid))]
                 ELSE [type |-> "object",
                       data |-> [buffer |-> ContentAt(gwCid)]])
    ELSE IF gwResult.state = "resolved"
    THEN Outcome("resolved", gwResult.from, gwResult.data,
                 IF facade = "get"
                 THEN ParseOrText(gwResult.data)
                 ELSE [type |-> "object",
                       data |-> [buffer |-> gwResult.data]])
    ELSE IF gwResult.state = "rejected" /\ (CatFailed \/ ~HasFallback(facade))
    THEN Outcome("rejected", 0,
                 IF FirstSource(facade) = "node" \/ ~HasFallback(facade)
                 THEN gwResult.data ELSE CatError,
                 JsUndefined)
    ELSE Outcome("pending", 0, "", JsUndefined)

GwInit ==
    /\ gwCid = ""
    /\ gwReq = [g \in Gateways |-> "idle"]
    /\ gwSettled = <<>>
    /\ gwResult = NoResult
    /\ fetches = 0
    /\ facade = "none"
    /\ cat = "idle"

\* ------------------------------------------------- extractCID on its own
\* The tokens of arbitrary arguments, and those a CID may consist of (no
\* '?' and no '/').
Tokens == {"ipfs://", "https://", "/ipfs/", "?", ".", "ipfs.dweb.link/",
           "QmHello", "gw"}
CidTokens == {"QmHello", "gw", "."}

SeqsUpTo(S, n) == UNION {[1..k -> S] : k \in 0..n}

\* CIDs of one or two tokens.
CidStrings == SeqsUpTo(CidTokens, 2) \ {<<>>}

\* The arguments: null, undefined, every string of up to MaxUrlLen tokens
\* and the four shapes of every CID.
ExtractInputs ==
    {NullCid, UndefinedCid}
        \cup {StringCid(u) : u \in SeqsUpTo(Tokens, MaxUrlLen)}
        \cup {StringCid(u) : u \in UNION {UrlsOf(X) : X \in CidStrings}}

NotCalled == [kind |-> "none", str |-> <<>>]
Called == exResult # NotCalled

ExIdle ==
    /\ exUrl = NullCid
    /\ exResult = NotCalled

\* this.extractCID(url)
Extract ==
    /\ exResult = NotCalled
    /\ exResult' = ExtractCID(exUrl)
    /\ UNCHANGED <<ledger, pinned, clock, hasEmitter, providers, calls,
                   started, rmSent, invoked, returned, emitted,
                   gwCid, gwReq, gwSettled, gwResult, fetches, facade, cat,
                   exUrl>>

ExtractInit ==
    /\ NodeInit
    /\ GwInit
    /\ exUrl \in ExtractInputs
    /\ exResult = NotCalled

SpecExtract == ExtractInit /\ [][Extract]_vars

Init == NodeInit /\ GwInit /\ ExIdle

\* IpfsService.pin calls pin(CID, owner): broadcast takes its default, true.
Pin == \E content \in Contents, owner \in Owners :
          PinAdd("pin", content, owner, TRUE)
\* The listener leaving broadcast at its default.
ReplicateBroadcasting == \E content \in Contents, owner \in Owners :
                            PinAdd("replicate", content, owner, TRUE)
\* handleIpfsBroadcastWrite calls pin(payload.content, payload.owner, false).
Replicate == \E content \in Contents, owner \in Owners :
                PinAdd("replicate", content, owner, FALSE)
PinWrite == \E c \in InFlight : PinCreate(c)
Upload == \E content \in Contents, owner \in Owners : UploadAdd(content, owner)
UploadWrite == \E c \in InFlight : UploadCreate(c)
Unpin == \E cid \in CIDs, owner \in Owners : UnpinFind(cid, owner)
UnpinRemove == \E c \in InFlight : UnpinRm(c)
UnpinErase == \E c \in InFlight : UnpinDelete(c)

Status == GetStatus
NoNode ==
    \/ \E content \in Contents, owner \in Owners :
          \/ FacadeNoNode("pin", content, "", owner)
          \/ FacadeNoNode("upload", content, "", owner)
    \/ \E cid \in CIDs, owner \in Owners : FacadeNoNode("unpin", "", cid, owner)
    \/ FacadeNoNode("getStatus", "", "", "")

Next ==
    \/ Pin
    \/ Replicate
    \/ PinWrite
    \/ Upload
    \/ UploadWrite
    \/ Unpin
    \/ UnpinRemove
    \/ UnpinErase
    \/ Status
    \/ NoNode

Spec == Init /\ [][Next]_vars

GatewayGet == \E cid \in Stored : GwGet(cid)
GatewayRespond == \E g \in Gateways, ok \in BOOLEAN : GwRespond(g, ok)
GatewayHang == \E g \in Gateways : GwHang(g)
ServiceGet == \E cid \in Stored \cup {""} : FacadeGet(cid)
ServiceGetFile == \E url \in FileUrls : FacadeGetFile(url)
ServiceGetMetadata == \E url \in FileUrls : FacadeGetMetadata(Base64Encode(url))
NodeCat == \E outcome \in {"ok", "fail", "timeout"} : CatRespond(outcome)

GwNext ==
    \/ GatewayGet
    \/ GatewayRespond
    \/ GatewayHang
    \/ ServiceGet
    \/ ServiceGetFile
    \/ ServiceGetMetadata
    \/ NodeCat

SpecGateway == Init /\ [][GwNext]_vars

\* The event loop delivers every completion it has: a request that is still
\* open is either answered or found to hang, and client.cat ends (with the
\* content, an error or its timeout).  No fetch is ever required to start.
FetchFairness == WF_vars(GatewayRespond \/ GatewayHang) /\ WF_vars(NodeCat)
SpecFetchLive == Init /\ [][GwNext]_vars /\ FetchFairness

\* A step in which the daemon or the database failed on its own.
FaultStep == returned'.result \in ExternalFailures \cup {"false"}

\* Every step of Next, without failures of the daemon or the database.
ReliableNext ==
    \/ Pin /\ ~FaultStep
    \/ Replicate /\ ~FaultStep
    \/ PinWrite /\ ~FaultStep
    \/ Upload /\ ~FaultStep
    \/ UploadWrite /\ ~FaultStep
    \/ Unpin /\ ~FaultStep
    \/ UnpinRemove /\ ~FaultStep
    \/ UnpinErase /\ ~FaultStep
    \/ Status /\ ~FaultStep

\* A Node constructed with its EventEmitter2 (by injection of the class).
ReliableInit == Init /\ hasEmitter

SpecReliable == ReliableInit /\ [][ReliableNext]_vars

\* _Node.pin of any text, JSON documents included.
PinText == \E content \in Texts, owner \in Owners :
              PinAdd("pin", content, owner, TRUE)

\* One pin, and after it has returned its CID, reads through the facade.
PinGetNext ==
    \/ PinText /\ started = 0
    \/ PinWrite
    \/ ServiceGet /\ returned.op = "pin" /\ returned.result = returned.cid
    \/ NodeCat
    \/ GatewayRespond
    \/ GatewayHang

SpecPinGet == Init /\ [][PinGetNext]_vars

\* ------------------------------------------------------- IpfsController
\* unpinContent: `return await this.ipfsService.unpin(..)` answers 200 (the
\* default of a @Delete handler); the catch wraps every error in a
\* BadRequestException, which answers 400.
UnpinContent(ret) == IF ret.result \in Errors THEN 400 ELSE 200

\* readContent: `return (await this.ipfsService.get(cid)).data`; a value
\* without a data property gives undefined.
ReadContent(value) ==
    IF "data" \in DOMAIN value THEN value.data ELSE JsUndefined

\* ================================================================= claims
RemoveAt(ldg, k) == SubSeq(ldg, 1, k - 1) \o SubSeq(ldg, k + 1, Len(ldg))
Quiescent == calls = EmptyBag

\* C1: an unpin whose caller is not the owner of the record findOne returns
\* fails with Unauthorized in that very step: the ledger is unchanged (the
\* record is still there with its owner), no pin.rm request is sent and the
\* backing pinset is unchanged.
C1_NonOwnerUnpinUnauthorized ==
    [][LET k == FindOne(ledger, invoked'.cid)
       IN  (invoked'.op = "unpin" /\ k # 0 /\ ledger[k].owner # invoked'.owner)
           => /\ returned'.op = "unpin"
              /\ returned'.cid = invoked'.cid
              /\ returned'.owner = invoked'.owner
              /\ returned'.result = "Unauthorized"
              /\ ledger' = ledger
              /\ pinned' = pinned
              /\ ~rmSent'
              /\ BagCardinality(calls') = BagCardinality(calls)]_vars

C1_Witness ==
    /\ returned.op = "unpin"
    /\ returned.result = "Unauthorized"
    /\ \E k \in Records(ledger, returned.cid) : ledger[k].owner # returned.owner
    /\ returned.cid \in pinned

\* C2: a record leaves the ledger only in the step in which an unpin called
\* by the record's owner returns.
C2_OnlyOwnerDeletes ==
    [][\A k \in 1..Len(ledger) :
          (Len(ledger') < Len(ledger) /\ ledger' = RemoveAt(ledger, k))
          => /\ returned'.op = "unpin"
             /\ returned'.owner = ledger[k].owner]_vars

\* C3: the ledger never holds two records with the same cid.
C3_OneRecordPerCid ==
    \A cid \in CIDs : Cardinality(Records(ledger, cid)) <= 1

\* C4: an unpin(c, owner) that starts right after pin(content, owner) returned
\* c and runs with no other call's step in between returns true and leaves no
\* record for c (unless the daemon or the database itself fails).
C4_PinThenUnpin ==
    (returned.op = "unpin" /\ returned.chain
        /\ returned.result \notin ExternalFailures)
    => /\ returned.result = "true"
       /\ Records(ledger, returned.cid) = {}

\* C5: a step in which pin.rm fails ends the unpin with that error and leaves
\* the ledger as it was; a record is deleted only by an unpin whose pin.rm
\* has succeeded, in the step in which it returns true.
C5_RmBeforeDelete ==
    [][/\ (rmSent' /\ pinned' = pinned)
          => /\ returned'.op = "unpin"
             /\ returned'.result \in {"PinRmError", "NotPinnedError"}
             /\ ledger' = ledger
             /\ BagCardinality(calls') = BagCardinality(calls) - 1
       /\ (Len(ledger') < Len(ledger))
          => \E c \in InFlight :
                /\ c.op = "unpin" /\ c.pc = "delete" /\ c.rmDone
                /\ returned'.op = "unpin" /\ returned'.cid = c.cid
                /\ returned'.result = "true"]_vars

C5_Witness ==
    /\ returned.op = "unpin"
    /\ returned.result = "PinRmError"
    /\ rmSent
    /\ \E k \in Records(ledger, returned.cid) : ledger[k].owner = returned.owner

\* C6: an unpin of a cid that has no record fails with 'Content not pinned'
\* in that very step, whoever calls: no pin.rm request is sent, the ledger
\* and the backing pinset are unchanged.
C6_UnpinMissingNotFound ==
    [][(/\ invoked'.op = "unpin"
        /\ "node" \in providers
        /\ FindOne(ledger, invoked'.cid) = 0)
       => /\ returned'.op = "unpin"
          /\ returned'.cid = invoked'.cid
          /\ returned'.owner = invoked'.owner
          /\ returned'.result = "Content not pinned"
          /\ ledger' = ledger
          /\ pinned' = pinned
          /\ ~rmSent'
          /\ BagCardinality(calls') = BagCardinality(calls)]_vars

C6_Witness ==
    /\ returned.op = "unpin"
    /\ returned.result = "Content not pinned"
    /\ Records(ledger, returned.cid) = {}
    /\ returned.cid \in pinned

\* C7: every unpin that returns true has deleted a record of its own, so two
\* unpins never both succeed on one record.
C7_OneSuccessPerRecord ==
    [][(returned'.op = "unpin" /\ returned'.result = "true")
       => Len(ledger') = Len(ledger) - 1]_vars

\* C8: when no call is in flight, every record's cid is pinned in the backing
\* store.
C8_RecordImpliesPinned ==
    Quiescent => \A k \in 1..Len(ledger) : ledger[k].cid \in pinned

\* C9: a pin whose content injection and ledger write succeeded returns the
\* CID, whatever the emit does.
C9_BroadcastNeverFailsPin ==
    [][(returned'.op = "pin" /\ Len(ledger') = Len(ledger) + 1)
       => returned'.result = returned'.cid]_vars

\* C10: get issues one request per configured gateway; as soon as one request
\* has succeeded the promise is resolved with the body of a gateway that
\* succeeded, whatever the completion order; it is rejected only when every
\* request has failed.
C10_FirstSuccessWins ==
    gwResult.state # "idle"
    => /\ \A g \in Gateways : gwReq[g] # "idle"
       /\ (\E g \in Gateways : gwReq[g] = "ok")
          => /\ gwResult.state = "resolved"
             /\ gwReq[gwResult.from] = "ok"
             /\ gwResult.data = ContentAt(gwCid)
       /\ gwResult.state = "rejected" => \A g \in Gateways : gwReq[g] = "fail"
       /\ gwResult.state = "resolved" => \E g \in Gateways : gwReq[g] = "ok"

C10_Witness ==
    /\ gwResult.state = "resolved"
    /\ Len(gwSettled) >= 2
    /\ gwReq[gwSettled[1]] = "fail"
    /\ gwResult.from # gwSettled[1]
    /\ \E g \in Gateways : gwReq[g] = "pending"

\* C11: once a gateway has answered the current fetch with success, the
\* promise of the gateway provider is resolved, whatever the other gateways
\* do: fail, answer later or never answer.
C11_SuccessNotBlocked ==
    (\E g \in Gateways : gwReq[g] = "ok") ~> (gwResult.state = "resolved")

\* _Gateway.get is resolved by one gateway while another has failed and a
\* third never answers.
C11_Witness ==
    /\ facade = "gateway.get"
    /\ gwResult.state = "resolved"
    /\ \E g \in Gateways : gwReq[g] = "hung"
    /\ \E g \in Gateways : gwReq[g] = "fail"

\* C12: every fetch eventually settles: the promise returned by get, getFile
\* or _Gateway.get does not stay pending for ever, also when one gateway
\* never answers and all the others fail.
C12_EveryFetchSettles ==
    (FetchResult.state = "pending") ~> (FetchResult.state # "pending")

\* C13: IpfsService.get asks the node first and the gateways only after the
\* node's attempt has failed; with the node failed and a gateway answering
\* with success it returns the content, and it is rejected only when the
\* node and every gateway have failed.
C13_GetDirectFirst ==
    facade = "get" =>
        /\ cat # "idle"
        /\ (\E g \in Gateways : gwReq[g] # "idle") => CatFailed
        /\ (CatFailed /\ \E g \in Gateways : gwReq[g] = "ok") =>
               /\ FetchResult.state = "resolved"
               /\ FetchResult.data = ContentAt(gwCid)
        /\ FetchResult.state = "rejected" =>
               /\ CatFailed
               /\ \A g \in Gateways : gwReq[g] = "fail"

\* get returns the content from a gateway after the node's cat has failed.
C13_Witness ==
    /\ facade = "get"
    /\ CatFailed
    /\ FetchResult.state = "resolved"
    /\ FetchResult.from \in Gateways
    /\ \E g \in Gateways : gwReq[g] = "fail"

\* C14: IpfsService.getFile asks the gateways first and the node only after
\* every gateway has failed; with every gateway failed and the node serving
\* the content it returns the node's result, and it is rejected only when
\* the gateways and the node have failed.
C14_GetFileRemoteFirst ==
    facade = "getFile" =>
        /\ \A g \in Gateways : gwReq[g] # "idle"
        /\ cat # "idle" => \A g \in Gateways : gwReq[g] = "fail"
        /\ ((\A g \in Gateways : gwReq[g] = "fail") /\ cat = "ok") =>
               /\ FetchResult.state = "resolved"
               /\ FetchResult.from = 0
               /\ FetchResult.data = ContentAt(gwCid)
        /\ FetchResult.state = "rejected" =>
               /\ CatFailed
               /\ \A g \in Gateways : gwReq[g] = "fail"

\* getFile returns the node's content after every gateway has failed.
C14_Witness ==
    /\ facade = "getFile"
    /\ \A g \in Gateways : gwReq[g] = "fail"
    /\ cat = "ok"
    /\ FetchResult.state = "resolved"

\* C15: a pin whose injection failed ends with that error and changes
\* neither the ledger nor the pinset; a pin whose injection succeeded and
\* whose ledger write failed ends with that error, writes no record, emits
\* no event and leaves the injected content pinned (nothing is rolled back).
C15_PinFailureModes ==
    [][(returned'.op = "pin" /\ "node" \in providers) =>
          /\ returned'.cid = "" =>
                 /\ returned'.result = "AddError"
                 /\ ledger' = ledger
                 /\ pinned' = pinned
                 /\ emitted' = NoEmit
          /\ (returned'.cid # "" /\ Len(ledger') = Len(ledger)) =>
                 /\ returned'.result = "CreateError"
                 /\ ledger' = ledger
                 /\ pinned' = pinned
                 /\ emitted' = NoEmit]_vars

\* A pin has failed at the ledger write: its content is pinned in the
\* daemon and the ledger has no record of it.
C15_Witness ==
    /\ returned.op = "pin"
    /\ returned.result = "CreateError"
    /\ returned.cid \in pinned
    /\ Records(ledger, returned.cid) = {}

\* C16: after a pin that was given a content identifier has written its
\* record and returned, the ledger holds a record whose cid is the
\* identifier that was passed in.
C16_PinRecordsGivenCid ==
    [][(/\ returned'.op = "pin"
        /\ returned'.content \in CIDs
        /\ returned'.result \notin Errors)
          => Records(ledger', returned'.content) # {}]_vars

\* The result of a pin, a handled replication event or an upload that
\* succeeded.
Succeeded(ret) ==
    IF ret.op = "replicate" THEN ret.result = "undefined"
    ELSE ret.result = ret.cid

\* C17: the ledger changes only by a record that a successful pin (pin,
\* replication listener, uploadAndPin) appends, or by the removal of one
\* record of the CID in the deletion step of an unpin that passed the owner
\* check and succeeds; every other record keeps its cid, owner and timestamp.
C17_RecordLifecycle ==
    [][ledger' # ledger =>
          \/ /\ returned'.op \in {"pin", "replicate", "upload"}
             /\ Succeeded(returned')
             /\ Len(ledger') = Len(ledger) + 1
             /\ SubSeq(ledger', 1, Len(ledger)) = ledger
             /\ ledger'[Len(ledger')].cid = returned'.cid
             /\ ledger'[Len(ledger')].owner = returned'.owner
          \/ /\ returned'.op = "unpin"
             /\ returned'.result = "true"
             /\ \E k \in Records(ledger, returned'.cid) :
                    ledger' = RemoveAt(ledger, k)]_vars

\* The CID a call acts on: the one it was given or the address of its content.
CallCid(call) == IF call.cid # "" THEN call.cid ELSE CidOf(call.content)

\* The step is taken by a call on CID c1: the call was invoked, returned or
\* moved on to its next await.
StepOn(c1) ==
    \/ invoked'.op # "none" /\ CallCid(invoked') = c1
    \/ returned'.op # "none" /\ CallCid(returned') = c1
    \/ \E c \in BagToSet(calls') :
          /\ CallCid(c) = c1
          /\ CopiesIn(c, calls') > CopiesIn(c, Interleaved(calls))

\* The records of CID c2, in ledger order.
RecordsOf(ldg, c2) ==
    LET IsOf(r) == r.cid = c2
    IN  SelectSeq(ldg, IsOf)

\* C18: a step of a pin or unpin call on CID c1 leaves the records and the
\* backing pin of every other CID c2 as they are.
C18_OtherCidsUntouched ==
    [][\A c1 \in CIDs : StepOn(c1) =>
          \A c2 \in CIDs \ {c1} :
              /\ RecordsOf(ledger', c2) = RecordsOf(ledger, c2)
              /\ c2 \in pinned' <=> c2 \in pinned]_vars

\* An unpin of one CID has deleted its record while another CID has a
\* record, a backing pin and a call in flight.
C18_Witness ==
    /\ returned.op = "unpin"
    /\ returned.result = "true"
    /\ \E k \in 1..Len(ledger) :
          /\ ledger[k].cid # returned.cid
          /\ ledger[k].cid \in pinned
    /\ \E c \in InFlight : CallCid(c) # returned.cid

\* C19: the listener runs pin with broadcast false: a handled event injects
\* the payload's content and writes its record, and no step of the handling
\* emits 'ipfs:write'; only a pin called with broadcast emits.
C19_ListenerNeverBroadcasts ==
    [][/\ \A c \in BagToSet(calls') : c.op = "replicate" => ~c.broadcast
       /\ returned'.op = "replicate" =>
              /\ emitted' = NoEmit
              /\ returned'.result = "undefined" =>
                     /\ Len(ledger') = Len(ledger) + 1
                     /\ ledger'[Len(ledger')].cid = CidOf(returned'.content)
                     /\ ledger'[Len(ledger')].owner = returned'.owner
       /\ emitted' # NoEmit => returned'.op = "pin"]_vars

\* A received event has been handled on a Node that has an emitter: the
\* record is written and nothing was emitted.
C19_Witness ==
    /\ returned.op = "replicate"
    /\ returned.result = "undefined"
    /\ hasEmitter
    /\ emitted = NoEmit
    /\ Records(ledger, returned.cid) # {}

C21_DirectOnly ==
    [][/\ (\/ invoked'.op \in {"pin", "unpin", "getStatus"}
           \/ returned'.op \in {"pin", "unpin", "getStatus"}
           \/ \E c \in BagToSet(calls') : c.op \in {"pin", "unpin"})
          => /\ gwReq' = gwReq
             /\ gwSettled' = gwSettled
             /\ gwResult' = gwResult
       /\ (invoked'.op \in {"pin", "unpin", "getStatus"}
              /\ "node" \notin providers)
          => /\ returned'.op = invoked'.op
             /\ returned'.result \in Errors
             /\ ledger' = ledger
             /\ pinned' = pinned
             /\ calls' = calls]_vars

\* unpin has failed on a facade that has no node provider.
C21_Witness ==
    /\ "node" \notin providers
    /\ returned.op = "unpin"
    /\ returned.result = "TypeError"
    /\ ledger = <<>>

\* C22: getMetadata of the facade is served by the gateways only.  While a
\* getMetadata is the current fetch, client.cat of the node is never
\* requested and the ledger and the set of pinned CIDs are unchanged; when
\* every gateway has failed the call is rejected with the error of the
\* gateways, without a second attempt.
C22_MetadataRemoteOnly ==
    [][facade' = "getMetadata"
          => /\ cat' = "idle"
             /\ ledger' = ledger
             /\ pinned' = pinned
             /\ (\A g \in Gateways : gwReq'[g] = "fail")
                   => /\ FetchResult'.state = "rejected"
                      /\ FetchResult'.data = "AggregateError"]_vars

C22_Witness ==
    /\ facade = "getMetadata"
    /\ "node" \in providers
    /\ gwCid \in Stored
    /\ \A g \in Gateways : gwReq[g] = "fail"
    /\ FetchResult.state = "rejected"

\* C23: when uploadAndPin returns, it returns the CID of the uploaded content
\* and the ledger has gained a record with that CID, the walletId of the
\* caller as owner, the time of the write as timestamp, and the metadata
\* {filename, mimetype, size} of the uploaded file.
C23_UploadRecordsMetadata ==
    [][(returned'.op = "upload" /\ returned'.result = returned'.cid)
          => /\ returned'.cid = CidOf(returned'.content)
             /\ Len(ledger') = Len(ledger) + 1
             /\ ledger'[Len(ledger')] =
                   NewPin(returned'.cid, returned'.owner, clock,
                          FileMetadata(returned'.content))]_vars

C25_OneOutcome ==
    [][(gwResult.state \in {"resolved", "rejected"} /\ fetches' = fetches)
          => /\ gwResult' = gwResult
             /\ facade = "gateway.get" => FetchResult' = FetchResult]_vars

C25_Witness ==
    /\ facade = "gateway.get"
    /\ gwResult.state = "resolved"
    /\ Len(gwSettled) = NumGateways
    /\ gwSettled[1] = gwResult.from
    /\ gwReq[gwSettled[2]] = "ok"
    /\ gwReq[gwSettled[3]] = "fail"

\* C26: with a node provider, get of the empty CID and getFile of a URL for
\* which extractCID returns no CID (null or undefined) fail on the node with
\* the error 'Invalid CID' and client.cat is never requested: the attempt on
\* the node is either not made yet (getFile asks the gateways first) or has
\* failed as invalid.
C26_InvalidCidNoCat ==
    (/\ facade \in {"get", "getFile"}
     /\ FalsyText(gwCid)
     /\ "node" \in providers)
    => /\ cat \in {"idle", "invalid"}
       /\ facade = "get" => cat = "invalid"
       /\ cat = "invalid" => CatError = "Invalid CID"
       /\ (facade = "getFile" /\ cat = "invalid")
             => /\ FetchResult.state = "rejected"
                /\ FetchResult.data = "Invalid CID"

C26_Witness ==
    /\ facade = "getFile"
    /\ gwCid = "null"
    /\ "node" \in providers
    /\ cat = "invalid"
    /\ FetchResult.data = "Invalid CID"

\* C27: a getMetadata whose decoded URL yields no CID (extractCID returns
\* null) is rejected as invalid input and no request to a gateway is issued
\* for it.
C27_MetadataInvalidInput ==
    (facade = "getMetadata" /\ gwCid = "null")
    => /\ \A g \in Gateways : gwReq[g] = "idle"
       /\ FetchResult.state = "rejected"
       /\ FetchResult.data = "Invalid CID"

\* C28: extractCID never throws, and for 'ipfs://' and '?', of which nothing
\* is left after cleaning, it returns a string.
C28_ExtractNeverThrows ==
    (Called /\ exUrl.kind = "string" /\ exUrl.str # <<>>)
    => /\ exResult.kind # "TypeError"
       /\ exUrl.str \in {<<"ipfs://">>, <<"?">>} => exResult.kind = "string"

\* C29: for every CID X without '?' and '/', extractCID returns X for
\* ipfs://X, https://gw/ipfs/X?q=1, https://X.ipfs.dweb.link/ and X.
C29_ExtractSupportedShapes ==
    Called => \A X \in CidStrings :
                 (exUrl.kind = "string" /\ exUrl.str \in UrlsOf(X))
                    => exResult = StringCid(X)

C29_Witness ==
    /\ Called
    /\ exUrl = StringCid(<<"https://", "QmHello", ".", ".", "ipfs.dweb.link/">>)
    /\ exResult = StringCid(<<"QmHello", ".">>)

C31_NonOwnerForbidden ==
    [][(returned'.op = "unpin" /\ "node" \in providers)
          => /\ returned'.result = "Unauthorized"
                   => UnpinContent(returned') = 403
             /\ returned'.result = "Content not pinned"
                   => UnpinContent(returned') = 400]_vars

\* C32: a get of the facade that resolves gives the same value whichever
\* source served it, the value that the node gives for the content of the
\* CID, and readContent hands the content to its caller.
C32_SameValueBothSources ==
    (facade = "get" /\ FetchResult.state = "resolved")
    => /\ FetchResult.value =
             [type |-> "object", data |-> ParseOrText(ContentAt(gwCid))]
       /\ ReadContent(FetchResult.value) = ParseOrText(ContentAt(gwCid))

\* C33: an unpin by the owner of a record does not fail because the backing
\* pin is already gone.  When pin.rm is requested for a CID that is not in
\* the pinset, only a failure of the request itself ends the unpin; the
\* call otherwise goes on to delete the record.
C33_UnpinRetrySafe ==
    [][(returned'.op = "unpin" /\ rmSent' /\ returned'.cid \notin pinned)
          => returned'.result = "PinRmError"]_vars

\* C34: no request is sent to a gateway for a CID that is null or empty: a
\* getFile or getMetadata whose URL yields no CID has every gateway request
\* unissued.
C34_NoRequestForNullCid ==
    (facade \in {"getFile", "getMetadata"} /\ gwCid \in {"null", ""})
    => \A g \in Gateways : gwReq[g] = "idle"

\* C35: an 'ipfs:write' event is emitted only in the step in which a pin
\* with broadcast true returns its CID, after that step has appended the
\* record of the CID; the payload is the content and the owner the pin was
\* called with.  As the call returns in that step, it emits at most once.
\* A pin that fails at client.add or at the ledger write, or that runs with
\* broadcast false, emits nothing.
C35_EmitOncePerPin ==
    [][/\ emitted' # NoEmit
          => /\ returned'.op \in {"pin", "replicate"}
             /\ returned'.broadcast
             /\ returned'.result = returned'.cid
             /\ returned'.cid = CidOf(returned'.content)
             /\ Len(ledger') = Len(ledger) + 1
             /\ ledger'[Len(ledger')].cid = returned'.cid
             /\ ledger'[Len(ledger')].owner = returned'.owner
             /\ emitted' = [content |-> returned'.content,
                            owner |-> returned'.owner]
             /\ BagCardinality(calls') = BagCardinality(calls) - 1
       /\ (/\ returned'.op \in {"pin", "replicate"}
           /\ \/ returned'.result \in {"AddError", "CreateError"}
              \/ ~returned'.broadcast
              \/ Len(ledger') = Len(ledger))
          => emitted' = NoEmit]_vars

C35_Witness ==
    /\ emitted # NoEmit
    /\ returned.op = "pin"
    /\ returned.result = "QmOfQmHello"
    /\ emitted.content = "QmHello"
    /\ Len(ledger) = 2

\* C36: what extractCID returns is null, and then the URL was null or empty,
\* or a string that is not empty; it is never undefined.
C36_ExtractNeverUndefined ==
    Called => /\ exResult.kind # "undefined"
              /\ exResult.kind = "null" => Falsy(exUrl)
              /\ exResult.kind = "string" => exResult.str # <<>>

====
